---------------------------- MODULE Spec2Model ----------------------------
(***************************************************************************)
(* Model of monailabel/deepedit/transforms.py: the guidance transforms     *)
(* DiscardAddGuidanced, ResizeGuidanceCustomd, AddRandomGuidanced,         *)
(* PosNegClickProbAddRandomGuidanced and SingleLabelSingleModalityd.       *)
(*                                                                         *)
(* Conventions                                                             *)
(*  - an n-d array is a record [shape, v]: v is the C-order flattening     *)
(*    (v[k] is the element with flat index k-1);                           *)
(*  - Python's None is the empty sequence <<>> wherever the other values   *)
(*    are sequences (a point, a weight map): both are falsy in Python;     *)
(*  - weights, weighted distances, probabilities and the numbers of a      *)
(*    point or guidance row are fixed-point numbers counted in units of    *)
(*    1/Unit (the integer i is i * Unit), so that astype(int) is a real    *)
(*    truncation;                                                          *)
(*  - a random draw is a nondeterministic choice over the outcomes that    *)
(*    have non-zero probability;                                           *)
(*  - every action is one whole call of a transform on one instance; the   *)
(*    variable tr names the transform the instance belongs to.             *)
(***************************************************************************)
EXTENDS Integers, Sequences, FiniteSets, TLC

VARIABLES
    tr,       \* the class of the instance under test (fixed by Init)
    cfg,      \* the instance's constructor arguments
    self,     \* the instance's mutable attributes
    pre,      \* the caller's record as it was when the last call started
    data,     \* the caller's record as it is after the last call
    d,        \* the dict the last call returned (<<>> when it raised)
    outcome   \* "init" | "returned" | "raised"

vars == <<tr, cfg, self, pre, data, d, outcome>>

(***************************************************************************)
(* Bounds of the model.                                                    *)
(***************************************************************************)
\* Denominator of the fixed-point numbers (weights are multiples of 1/Unit).
Unit == 2
\* A chained call starts with fewer than MaxRows clicks per class.
MaxRows == 2

None == <<>>

\* Shapes (C, H, W) and (C, H, W, D) of one discrepancy map in find_guidance.
FindShapes == {<<1, 1, 3>>, <<1, 2, 2>>, <<1, 1, 1, 2>>}
\* Voxel values of a discrepancy map given to find_guidance directly.
FindVals == {-1, 0, 1}
\* Weights of a weight map, in units of 1/Unit.
WeightVals == {0, 3}
\* Shape (C, H, W) of one discrepancy map in the calls of the transforms.
CallShape == <<1, 1, 2>>
\* Voxel values of the discrepancy maps in add_guidance and in the calls.
DiscrVals == {0, 1}
\* Probabilities (interaction, positive click), in units of 1/Unit.
Probs == {0, 1, Unit}

(***************************************************************************)
(* Arithmetic helpers.                                                     *)
(***************************************************************************)
Abs(x) == IF x < 0 THEN -x ELSE x

Sgn(x) == IF x > 0 THEN 1 ELSE IF x < 0 THEN -1 ELSE 0

SetMax(S) == CHOOSE x \in S : \A y \in S : y <= x

SetMin(S) == CHOOSE x \in S : \A y \in S : x <= y

RECURSIVE Prod(_)
Prod(s) == IF s = <<>> THEN 1 ELSE Head(s) * Prod(Tail(s))

RECURSIVE Sum(_)
Sum(s) == IF s = <<>> THEN 0 ELSE Head(s) + Sum(Tail(s))

\* All sequences of length n over S.
Tuples(n, S) == [1..n -> S]

\* The fixed-point form of a sequence of integers.
Fix(s) == [k \in 1..Len(s) |-> s[k] * Unit]

\* ndarray.astype(int) on one fixed-point number: C truncation toward zero.
AsInt(x) == IF x >= 0 THEN (x \div Unit) * Unit ELSE -(((-x) \div Unit) * Unit)

\* np.unravel_index(i, shape): the C-order multi-index of flat index i.
unravel_index(i, shape) ==
    [k \in 1..Len(shape) |->
        (i \div Prod(SubSeq(shape, k + 1, Len(shape)))) % shape[k]]

\* The chessboard metric between two multi-indices.
Chessboard(a, b) == SetMax({Abs(a[k] - b[k]) : k \in 1..Len(a)})

\* scipy.ndimage distance_transform_cdt (metric "chessboard"), flattened:
\* 0 at a zero element, else the chessboard distance to the nearest zero
\* element; -1 everywhere when the input has no zero element (the chamfer
\* passes never replace the initial -1).  The array border is not background.
distance_transform_cdt(m) ==
    LET n == Len(m.v)
        zeros == {j \in 1..n : m.v[j] = 0}
    IN [k \in 1..n |->
          IF m.v[k] = 0 THEN 0
          ELSE IF zeros = {} THEN -1
          ELSE SetMin({Chessboard(unravel_index(k - 1, m.shape),
                                  unravel_index(j - 1, m.shape)) : j \in zeros})]

\* Randomizable.R.choice([True, False], p=[p, 1 - p]): the values it can return.
ChoiceTF(p) == {b \in BOOLEAN : IF b THEN p > 0 ELSE p < Unit}

(***************************************************************************)
(* find_guidance (the same code in both classes).  The result is the set   *)
(* of outcomes [exc, g]: exc when R.choice raises ValueError, g the        *)
(* returned point or None.                                                 *)
(*   probability = exp(weighted_distance) - 1 has the sign of              *)
(*   weighted_distance; with weights >= 0 the entries at idx are all >= 0  *)
(*   or all <= 0, so p = probability[idx] / sum is NaN (0/0) exactly when  *)
(*   every entry is 0, and else p[k] > 0 exactly when entry k is not 0.    *)
(***************************************************************************)
find_guidance(discrepancy, weight_map) ==
    LET distance == distance_transform_cdt(discrepancy)
        n == Len(discrepancy.v)
        weighted_distance ==
            IF weight_map # None
            THEN [k \in 1..n |-> distance[k] * weight_map[k]]
            ELSE [k \in 1..n |-> distance[k] * Unit]
        probability == [k \in 1..n |-> Sgn(weighted_distance[k])]
        idx == {k \in 1..n : discrepancy.v[k] > 0}
        support == {k \in idx : probability[k] # 0}
    IN  IF idx # {}
        THEN IF support = {}
             THEN {[exc |-> TRUE, g |-> None]}
             ELSE {[exc |-> FALSE,
                    g |-> [Fix(unravel_index(seed - 1, discrepancy.shape))
                               EXCEPT ![1] = weighted_distance[seed]]] : seed \in support}
        ELSE {[exc |-> FALSE, g |-> None]}

(***************************************************************************)
(* add_guidance.  The result is the set of outcomes [exc, pos, neg].       *)
(***************************************************************************)
\* np.sum of an array.
np_sum(m) == Sum(m.v)

\* The outcomes of "return self.find_guidance(pos_discr, weight_map), None".
ReturnPos(discr, weight_map) ==
    {[exc |-> r.exc, pos |-> r.g, neg |-> None] : r \in find_guidance(discr, weight_map)}

\* The outcomes of "return None, self.find_guidance(neg_discr, weight_map)".
ReturnNeg(discr, weight_map) ==
    {[exc |-> r.exc, pos |-> None, neg |-> r.g] : r \in find_guidance(discr, weight_map)}

ReturnNoneNone == {[exc |-> FALSE, pos |-> None, neg |-> None]}

\* AddRandomGuidanced.add_guidance
AddRandomGuidanced_add_guidance(discrepancy, weight_map, will_interact) ==
    IF ~will_interact THEN ReturnNoneNone
    ELSE
      LET pos_discr == discrepancy[1]
          neg_discr == discrepancy[2]
          can_be_positive == np_sum(pos_discr) > 0
          can_be_negative == np_sum(neg_discr) > 0
          correct_pos == np_sum(pos_discr) >= np_sum(neg_discr)
      IN  IF correct_pos /\ can_be_positive THEN ReturnPos(pos_discr, weight_map)
          ELSE IF ~correct_pos /\ can_be_negative THEN ReturnNeg(neg_discr, weight_map)
          ELSE ReturnNoneNone

\* PosNegClickProbAddRandomGuidanced.add_guidance; correct_pos is drawn
\* before the branches, whether they use it or not.
PosNegClickProb_add_guidance(pos_click_probability, discrepancy, weight_map, will_interact) ==
    IF ~will_interact THEN ReturnNoneNone
    ELSE
      LET pos_discr == discrepancy[1]
          neg_discr == discrepancy[2]
          can_be_positive == np_sum(pos_discr) > 0
          can_be_negative == np_sum(neg_discr) > 0
          pos_prob == pos_click_probability
      IN  UNION {
            IF can_be_positive /\ ~can_be_negative THEN ReturnPos(pos_discr, weight_map)
            ELSE IF ~can_be_positive /\ can_be_negative THEN ReturnNeg(neg_discr, weight_map)
            ELSE IF correct_pos /\ can_be_positive THEN ReturnPos(pos_discr, weight_map)
            ELSE IF ~correct_pos /\ can_be_negative THEN ReturnNeg(neg_discr, weight_map)
            ELSE ReturnNoneNone
            : correct_pos \in ChoiceTF(pos_prob)}

\* The add_guidance of the instance's class.
add_guidance(discrepancy, weight_map, will_interact) ==
    IF tr = "PosNegClickProbAddRandomGuidanced"
    THEN PosNegClickProb_add_guidance(cfg.pos_click_probability, discrepancy,
                                      weight_map, will_interact)
    ELSE AddRandomGuidanced_add_guidance(discrepancy, weight_map, will_interact)

(***************************************************************************)
(* The two routines called directly, as pure functions of their arguments: *)
(* Init draws the arguments, one action applies the routine.               *)
(***************************************************************************)
\* The arrays of a shape over a set of values.
Arrays(shape, Vals) == {[shape |-> shape, v |-> v] : v \in Tuples(Prod(shape), Vals)}

\* None or a weight map for arrays of a shape.
WeightMaps(shape) == {None} \cup Tuples(Prod(shape), WeightVals)

NoSelf == [_will_interact |-> FALSE, is_pos |-> FALSE, is_neg |-> FALSE]

InitFind ==
    /\ tr = "find_guidance"
    /\ cfg = <<>>
    /\ self = NoSelf
    /\ \E shape \in FindShapes :
         \E m \in Arrays(shape, FindVals), w \in WeightMaps(shape) :
            pre = [discrepancy |-> m, weight_map |-> w]
    /\ data = pre
    /\ d = <<>>
    /\ outcome = "init"

InitAdd ==
    /\ tr = "add_guidance"
    /\ cfg = <<>>
    /\ self = NoSelf
    /\ \E m0 \in Arrays(CallShape, DiscrVals \cup {Unit}),
          m1 \in Arrays(CallShape, DiscrVals \cup {Unit}),
          w \in WeightMaps(CallShape), wi \in BOOLEAN :
            pre = [discrepancy |-> <<m0, m1>>, weight_map |-> w, will_interact |-> wi]
    /\ data = pre
    /\ d = <<>>
    /\ outcome = "init"

\* One call find_guidance(discrepancy, weight_map).
FindGuidance ==
    /\ tr = "find_guidance"
    /\ outcome = "init"
    /\ \E r \in find_guidance(pre.discrepancy, pre.weight_map) :
         /\ outcome' = IF r.exc THEN "raised" ELSE "returned"
         /\ d' = r.g
    /\ UNCHANGED <<tr, cfg, self, pre, data>>

\* One call AddRandomGuidanced.add_guidance(discrepancy, weight_map, will_interact).
AddGuidance ==
    /\ tr = "add_guidance"
    /\ outcome = "init"
    /\ \E r \in AddRandomGuidanced_add_guidance(pre.discrepancy, pre.weight_map,
                                                 pre.will_interact) :
         /\ outcome' = IF r.exc THEN "raised" ELSE "returned"
         /\ d' = IF r.exc THEN <<>> ELSE <<r.pos, r.neg>>
    /\ UNCHANGED <<tr, cfg, self, pre, data>>

InitPure == InitFind \/ InitAdd

NextPure == FindGuidance \/ AddGuidance

SpecPure == InitPure /\ [][NextPure]_vars

(***************************************************************************)
(* AddRandomGuidanced and PosNegClickProbAddRandomGuidanced: _apply and    *)
(* __call__ (the same code in both classes).                               *)
(* A guidance value is [kind, val]: kind "list", "str" (JSON text) or      *)
(* "ndarray", val = <<positive rows, negative rows>>.                      *)
(***************************************************************************)
\* The row [-1] * n.
MinusOnes(n) == [k \in 1..n |-> -Unit]

\* Whether np.asarray(guidance).astype(int) raises ValueError: the nested
\* list is not rectangular.
Ragged(guidance) ==
    \/ Len(guidance[1]) # Len(guidance[2])
    \/ \E s \in 1..2, t \in 1..2 :
         \E i \in 1..Len(guidance[s]), j \in 1..Len(guidance[t]) :
            Len(guidance[s][i]) # Len(guidance[t][j])

\* np.asarray(guidance).astype(int).tolist() of a rectangular guidance.
AsIntList(guidance) ==
    [s \in 1..2 |-> [i \in 1..Len(guidance[s]) |->
        [k \in 1..Len(guidance[s][i]) |-> AsInt(guidance[s][i][k])]]]

\* _apply from the attributes me of the instance.  The outcomes are
\* [exc, guidance, ret, is_pos, is_neg]: guidance is the list object after
\* the appends, ret the returned JSON text, is_pos / is_neg the attributes
\* when _apply ends.
apply_guidance(me, guidance, discrepancy, weight_map) ==
    { IF r.exc
      THEN [exc |-> TRUE, guidance |-> guidance, ret |-> None,
            is_pos |-> me.is_pos, is_neg |-> me.is_neg]
      ELSE
        LET g1 == IF r.pos # None
                  THEN <<Append(guidance[1], r.pos),
                         Append(guidance[2], MinusOnes(Len(r.pos)))>>
                  ELSE guidance
            is_pos1 == IF r.pos # None THEN TRUE ELSE me.is_pos
            g2 == IF r.neg # None
                  THEN <<Append(g1[1], MinusOnes(Len(r.neg))),
                         Append(g1[2], r.neg)>>
                  ELSE g1
            is_neg1 == IF r.neg # None THEN TRUE ELSE me.is_neg
        IN  IF Ragged(g2)
            THEN [exc |-> TRUE, guidance |-> g2, ret |-> None,
                  is_pos |-> is_pos1, is_neg |-> is_neg1]
            ELSE [exc |-> FALSE, guidance |-> g2, ret |-> AsIntList(g2),
                  is_pos |-> is_pos1, is_neg |-> is_neg1]
      : r \in add_guidance(discrepancy, weight_map, me._will_interact) }

\* dict d with key k bound to v.
SetKey(dict, k, v) ==
    [x \in DOMAIN dict \cup {k} |-> IF x = k THEN v ELSE dict[x]]

GuidanceClasses == {"AddRandomGuidanced", "PosNegClickProbAddRandomGuidanced"}

\* __call__(data) on the instance: randomize, _apply, the two flags copied
\* into d and reset.  When _apply raises, the lines after it do not run.
\* A guidance passed as a list is the object _apply appends to.
GuidanceCall ==
    /\ tr \in GuidanceClasses
    /\ outcome = "ready"
    /\ \E wi \in ChoiceTF(data.probability) :
         LET me == [self EXCEPT !._will_interact = wi]
             weight_map == IF cfg.weight_map # "None" THEN data.weight_map ELSE None
         IN \E a \in apply_guidance(me, data.guidance.val, data.discrepancy, weight_map) :
              /\ data' = IF data.guidance.kind = "list"
                         THEN [data EXCEPT !.guidance.val = a.guidance]
                         ELSE data
              /\ IF a.exc
                 THEN /\ outcome' = "raised"
                      /\ d' = <<>>
                      /\ self' = [me EXCEPT !.is_pos = a.is_pos, !.is_neg = a.is_neg]
                 ELSE /\ outcome' = "returned"
                      /\ d' = SetKey(SetKey(SetKey(data,
                                  "guidance", [kind |-> "str", val |-> a.ret]),
                                  "is_pos", a.is_pos), "is_neg", a.is_neg)
                      /\ self' = [me EXCEPT !.is_pos = FALSE, !.is_neg = FALSE]
    /\ UNCHANGED <<tr, cfg, pre>>

\* A click of the right length for CallShape and one that is too short.
GoodRow == Fix(<<1, 0, 1>>)
ShortRow == Fix(<<0, 1>>)

\* The guidance values a caller starts with: no click yet, one click of
\* the length find_guidance produces, one click without its first component.
FreshGuidance ==
    {[kind |-> "list", val |-> << <<>>, <<>> >>],
     [kind |-> "str", val |-> << <<>>, <<>> >>],
     [kind |-> "ndarray", val |-> << <<GoodRow>>, <<MinusOnes(3)>> >>],
     [kind |-> "list", val |-> << <<MinusOnes(2)>>, <<ShortRow>> >>]}

\* The pairs (discrepancy[0], discrepancy[1]) of a label and a prediction:
\* no voxel is both a false negative and a false positive.
DiscrepancyPairs ==
    {x \in Arrays(CallShape, DiscrVals) \X Arrays(CallShape, DiscrVals) :
        \A k \in 1..Prod(CallShape) : x[1].v[k] = 0 \/ x[2].v[k] = 0}

\* The weight maps of the calls.
CallWeightMaps == {<<0, 3>>, <<3, 3>>}

\* The discrepancy, weight map and probability a caller supplies.
CallInputs ==
    [discrepancy : DiscrepancyPairs,
     weight_map : IF cfg.weight_map # "None" THEN CallWeightMaps ELSE {None},
     probability : Probs]

InitGuidance ==
    /\ tr \in GuidanceClasses
    /\ \E wm \in {"None", "weight_map"} :
         IF tr = "PosNegClickProbAddRandomGuidanced"
         THEN \E p \in Probs : cfg = [weight_map |-> wm, pos_click_probability |-> p]
         ELSE cfg = [weight_map |-> wm]
    /\ self = NoSelf
    /\ pre = <<>>
    /\ data = <<>>
    /\ d = <<>>
    /\ outcome = "init"

\* The caller prepares the record of a new sample for the instance.
NewSample ==
    /\ tr \in GuidanceClasses
    /\ outcome # "ready"
    /\ \E g \in FreshGuidance, x \in CallInputs :
         data' = [guidance |-> g, discrepancy |-> x.discrepancy,
                  weight_map |-> x.weight_map, probability |-> x.probability,
                  image |-> "image"]
    /\ pre' = data'
    /\ d' = <<>>
    /\ outcome' = "ready"
    /\ UNCHANGED <<tr, cfg, self>>

\* The caller feeds the dict the last call returned into the next call, with
\* a new discrepancy, weight map and probability (the interaction loop).
Feedback ==
    /\ tr \in GuidanceClasses
    /\ outcome = "returned"
    /\ Len(d.guidance.val[1]) < MaxRows
    /\ \E x \in CallInputs :
         data' = [d EXCEPT !.discrepancy = x.discrepancy,
                           !.weight_map = x.weight_map,
                           !.probability = x.probability]
    /\ pre' = data'
    /\ d' = <<>>
    /\ outcome' = "ready"
    /\ UNCHANGED <<tr, cfg, self>>

NextGuidance == NewSample \/ Feedback \/ GuidanceCall

SpecGuidance == InitGuidance /\ [][NextGuidance]_vars

(***************************************************************************)
(* DiscardAddGuidanced.  An image is the sequence of its channels, a       *)
(* channel the flattening of its (H, W, D) volume.  The transform keeps no *)
(* attribute it writes: Init draws the constructor arguments and the       *)
(* caller's record.                                                        *)
(***************************************************************************)
\* The (H, W, D) shape of one channel, and the values of a voxel.
VolumeShape == <<1, 1, 1>>
ChannelVals == {0, 1, 2}
\* Most channels of an image the transform is called on.
MaxChannels == 4
\* probability, in units of 1/Unit: 0, 0.5, 1.0 and 1.5 when Unit is 2.
DiscardProbs == {0, 1, Unit, Unit + 1}

\* np.zeros((1, H, W, D)) as one channel.
signal(image) == [k \in 1..Len(image[1]) |-> 0]

\* _apply with the second guidance channel left as it is.
DiscardAddGuidanced_apply_one_channel(image) ==
    { IF discard
      THEN IF Len(image) = cfg.number_intensity_ch + 2
           THEN [image |-> [image EXCEPT
                              ![cfg.number_intensity_ch + 1] = signal(image)],
                 inplace |-> TRUE]
           ELSE [image |-> image \o <<signal(image), signal(image)>>,
                 inplace |-> FALSE]
      ELSE [image |-> image, inplace |-> TRUE]
      : discard \in IF cfg.discard_probability >= Unit
                    THEN {TRUE} ELSE ChoiceTF(cfg.discard_probability) }

\* _apply(image): the outcomes [image, inplace]; inplace when the array
\* passed in is the one written to and returned.
DiscardAddGuidanced_apply(image) ==
    { IF discard
      THEN IF Len(image) = cfg.number_intensity_ch + 2
           THEN [image |-> [image EXCEPT
                              ![cfg.number_intensity_ch + 1] = signal(image),
                              ![cfg.number_intensity_ch + 2] = signal(image)],
                 inplace |-> TRUE]
           ELSE [image |-> image \o <<signal(image), signal(image)>>,
                 inplace |-> FALSE]
      ELSE [image |-> image, inplace |-> TRUE]
      : discard \in IF cfg.discard_probability >= Unit
                    THEN {TRUE} ELSE ChoiceTF(cfg.discard_probability) }

InitDiscard ==
    /\ tr = "DiscardAddGuidanced"
    /\ \E keys \in {<<"image">>, <<"label">>, <<"image", "label">>},
          n \in 1..(MaxChannels - 2), p \in DiscardProbs :
         cfg = [keys |-> keys, number_intensity_ch |-> n, discard_probability |-> p]
    /\ self = <<>>
    /\ \E c \in 1..MaxChannels :
         \E image \in Tuples(c, Tuples(Prod(VolumeShape), ChannelVals)) :
            data = [image |-> image, label |-> "label"]
    /\ pre = data
    /\ d = <<>>
    /\ outcome = "ready"

\* __call__(data): _apply on d["image"] when "image" is one of the keys.
DiscardCall ==
    /\ tr = "DiscardAddGuidanced"
    /\ outcome = "ready"
    /\ IF \E i \in 1..Len(cfg.keys) : cfg.keys[i] = "image"
       THEN \E a \in DiscardAddGuidanced_apply(data.image) :
              /\ d' = [data EXCEPT !.image = a.image]
              /\ data' = IF a.inplace THEN [data EXCEPT !.image = a.image] ELSE data
       ELSE /\ d' = data
            /\ data' = data
    /\ outcome' = "returned"
    /\ UNCHANGED <<tr, cfg, self, pre>>

\* The caller applies the transform to the dict it returned.
DiscardAgain ==
    /\ tr = "DiscardAddGuidanced"
    /\ outcome = "returned"
    /\ Len(d.image) <= MaxChannels
    /\ data' = d
    /\ pre' = d
    /\ d' = <<>>
    /\ outcome' = "ready"
    /\ UNCHANGED <<tr, cfg, self>>

NextDiscard == DiscardCall \/ DiscardAgain

SpecDiscard == InitDiscard /\ [][NextDiscard]_vars

(***************************************************************************)
(* SingleLabelSingleModalityd.  pixdim and dim are the 8-entry NIfTI       *)
(* header fields: entry i of the source is element i + 1 of the sequence.  *)
(***************************************************************************)
\* Values of a label voxel, shapes of a label, values of an image voxel,
\* shapes (..., modalities) of an image.
LabelVals == {0, 1, 2}
LabelShapes == {<<2>>, <<1, 1>>}
ImageVals == {0, 1}
ImageShapes == {<<1, 2>>, <<2, 1>>}
\* The header fields the caller's metadata starts with: pixdim[4], dim[0], dim[4].
Pixdim4Vals == {0, 1}
Dim0Vals == {3, 4}
Dim4Vals == {1, 2}

MetaDicts ==
    {[pixdim |-> <<1, 1, 1, 1, p4, 0, 0, 0>>,
      dim |-> <<d0, 2, 2, 2, d4, 1, 1, 1>>,
      filename_or_obj |-> "dir/file"] :
        p4 \in Pixdim4Vals, d0 \in Dim0Vals, d4 \in Dim4Vals}

\* ndarray.max()
np_max(a) == SetMax({a.v[k] : k \in 1..Len(a.v)})

\* The stack indexed [1, ...]: the background mask.
ForegroundMask_index_one(a) ==
    [shape |-> a.shape, v |-> [k \in 1..Len(a.v) |-> IF a.v[k] = 0 THEN 1 ELSE 0]]

\* np.stack([a > 0, a == 0], axis=0).astype(np.float32)[0, ...]
ForegroundMask(a) ==
    LET result == << [k \in 1..Len(a.v) |-> IF a.v[k] > 0 THEN TRUE ELSE FALSE],
                     [k \in 1..Len(a.v) |-> IF a.v[k] = 0 THEN TRUE ELSE FALSE] >>
        stacked == [s \in 1..2 |-> [k \in 1..Len(a.v) |-> IF result[s][k] THEN 1 ELSE 0]]
    IN  [shape |-> a.shape, v |-> stacked[1]]

\* a[..., 0]
FirstOfLastAxis(a) ==
    LET n == Len(a.shape)
        last == a.shape[n]
        shape == SubSeq(a.shape, 1, n - 1)
    IN  [shape |-> shape, v |-> [j \in 1..Prod(shape) |-> a.v[(j - 1) * last + 1]]]

\* The patch without meta_data["dim"][4] = 1.
PatchMeta_without_dim4(meta_data) ==
    [meta_data EXCEPT !.pixdim[5] = 0, !.dim[1] = 3]

\* meta_data["pixdim"][4] = 0.0; meta_data["dim"][0] = 3; meta_data["dim"][4] = 1
PatchMeta(meta_data) ==
    [meta_data EXCEPT !.pixdim[5] = 0, !.dim[1] = 3, !.dim[5] = 1]

\* The body of the loop for one key, on the dict d0; the meta dicts are the
\* caller's objects, patched in place.
SingleStep(d0, key) ==
    IF key = "label"
    THEN IF np_max(d0.label) > 1
         THEN [d0 EXCEPT !.label = ForegroundMask(d0.label),
                         !.label_meta_dict = PatchMeta(d0.label_meta_dict)]
         ELSE d0
    ELSE IF key = "image"
    THEN IF d0.image_meta_dict.pixdim[5] > 0
         THEN [d0 EXCEPT !.image = FirstOfLastAxis(d0.image),
                         !.image_meta_dict = PatchMeta(d0.image_meta_dict)]
         ELSE d0
    ELSE d0

\* __call__(data): the loop over self.keys.
RECURSIVE SingleLoop(_, _)
SingleLoop(d0, keys) ==
    IF keys = <<>> THEN d0 ELSE SingleLoop(SingleStep(d0, Head(keys)), Tail(keys))

SingleLabelSingleModalityd_call(record) == SingleLoop(record, cfg.keys)

InitSingle ==
    /\ tr = "SingleLabelSingleModalityd"
    /\ \E keys \in {<<"label">>, <<"image">>, <<"label", "image">>, <<"other">>} :
         cfg = [keys |-> keys]
    /\ self = <<>>
    /\ \E ls \in LabelShapes, is \in ImageShapes :
         \E label \in Arrays(ls, LabelVals), image \in Arrays(is, ImageVals),
            lm \in MetaDicts, im \in MetaDicts :
            data = [label |-> label, image |-> image,
                    label_meta_dict |-> lm, image_meta_dict |-> im, other |-> "other"]
    /\ pre = data
    /\ d = <<>>
    /\ outcome = "ready"

\* One call.  The arrays bound in d are new objects, the meta dicts are not:
\* the caller's record sees the patched metadata.
SingleCall ==
    /\ tr = "SingleLabelSingleModalityd"
    /\ outcome = "ready"
    /\ d' = SingleLabelSingleModalityd_call(data)
    /\ data' = [data EXCEPT !.label_meta_dict = d'.label_meta_dict,
                            !.image_meta_dict = d'.image_meta_dict]
    /\ outcome' = "returned"
    /\ UNCHANGED <<tr, cfg, self, pre>>

\* The caller applies the transform to the dict it returned.
SingleAgain ==
    /\ tr = "SingleLabelSingleModalityd"
    /\ outcome = "returned"
    /\ data' = d
    /\ pre' = d
    /\ d' = <<>>
    /\ outcome' = "ready"
    /\ UNCHANGED <<tr, cfg, self>>

NextSingle == SingleCall \/ SingleAgain

SpecSingle == InitSingle /\ [][NextSingle]_vars

(***************************************************************************)
(* ResizeGuidanceCustomd.  factor = current_shape / dim[1:4] is a float64  *)
(* array and click * factor a rounded product: when the exact quotient     *)
(* click * current / original is a whole number q > 0 and factor is not    *)
(* exactly representable (original / gcd is no power of two), the rounded  *)
(* product may be q or just below it, and astype(int) gives q or q - 1; in *)
(* every other case the truncation of the product is that of the exact     *)
(* quotient.                                                               *)
(***************************************************************************)
\* Largest coordinate of a click.
MaxCoord == 3
\* The clicks of the caller: every coordinate value occurs on every axis.
Clicks == {<<x, y, MaxCoord - x>> : x \in 0..MaxCoord, y \in 0..MaxCoord}
\* The lengths of the foreground and of the background click list.
ForegroundLens == {0, 1, 2}
BackgroundLens == {0, 1}
\* The pairs <<ref_image spatial shape, image_meta_dict["dim"][1:4]>>.
ShapePairs ==
    {<< <<2, 3, 1>>, <<2, 3, 1>> >>,
     << <<1, 2, 3>>, <<3, 3, 3>> >>,
     << <<3, 3, 2>>, <<1, 2, 2>> >>,
     << <<2, 1, 3>>, <<3, 2, 2>> >>}

RECURSIVE GCD(_, _)
GCD(a, b) == IF b = 0 THEN a ELSE GCD(b, a % b)

RECURSIVE PowerOfTwo(_)
PowerOfTwo(n) == IF n = 1 THEN TRUE ELSE IF n % 2 # 0 THEN FALSE ELSE PowerOfTwo(n \div 2)

\* The factor taken as original / current.
ScaledCoord_inverse_factor(c, current, original) == {(c * original) \div current}

\* The values int(c * (current / original)) can take, for c >= 0.
ScaledCoord(c, current, original) ==
    LET q == (c * current) \div original
        exact == (c * current) % original = 0
    IN  IF exact /\ q > 0 /\ ~PowerOfTwo(original \div GCD(current, original))
        THEN {q - 1, q}
        ELSE {q}

\* The rows (click * factor).astype(int) can be for one click.
ScaledClick(click, current_shape, dim) ==
    {<<x, y, z>> : x \in ScaledCoord(click[1], current_shape[1], dim[2]),
                   y \in ScaledCoord(click[2], current_shape[2], dim[3]),
                   z \in ScaledCoord(click[3], current_shape[3], dim[4])}

\* The arrays np.multiply(clicks, factor).astype(int) can be, row by row.
RECURSIVE ScaledRows(_, _, _)
ScaledRows(clicks, current_shape, dim) ==
    IF clicks = <<>> THEN {<<>>}
    ELSE {<<row>> \o rest : row \in ScaledClick(Head(clicks), current_shape, dim),
                            rest \in ScaledRows(Tail(clicks), current_shape, dim)}

\* np.multiply(clicks, factor).astype(int).tolist() if len(clicks) else []
ScaledClicks(clicks, current_shape, dim) ==
    IF Len(clicks) # 0 THEN ScaledRows(clicks, current_shape, dim) ELSE {<<>>}

\* The click lists of the given lengths.
ClickLists(Lens) == UNION {Tuples(m, Clicks) : m \in Lens}

InitResize ==
    /\ tr = "ResizeGuidanceCustomd"
    /\ cfg = [guidance |-> "guidance", ref_image |-> "image"]
    /\ self = <<>>
    /\ \E sp \in ShapePairs, fg \in ClickLists(ForegroundLens), bg \in ClickLists(BackgroundLens) :
         data = [image |-> [shape |-> <<1>> \o sp[1]],
                 image_meta_dict |-> [dim |-> <<3>> \o sp[2] \o <<1, 1, 1, 1>>],
                 foreground |-> fg, background |-> bg]
    /\ pre = data
    /\ d = <<>>
    /\ outcome = "ready"

\* __call__(data)
ResizeCall ==
    /\ tr = "ResizeGuidanceCustomd"
    /\ outcome = "ready"
    /\ LET current_shape == Tail(data[cfg.ref_image].shape)
           dim == data.image_meta_dict.dim
           pos_clicks == data.foreground
           neg_clicks == data.background
       IN \E pos \in ScaledClicks(pos_clicks, current_shape, dim),
             neg \in ScaledClicks(neg_clicks, current_shape, dim) :
            d' = SetKey(data, cfg.guidance, <<pos, neg>>)
    /\ outcome' = "returned"
    /\ UNCHANGED <<tr, cfg, self, pre, data>>

NextResize == ResizeCall

SpecResize == InitResize /\ [][NextResize]_vars

(***************************************************************************)
(* Every transform: the instance is of one of the five classes.            *)
(***************************************************************************)
InitAll == InitDiscard \/ InitResize \/ InitGuidance \/ InitSingle

NextAll == NextDiscard \/ NextResize \/ NextGuidance \/ NextSingle

SpecAll == InitAll /\ [][NextAll]_vars

(***************************************************************************)
(* The claims.                                                             *)
(***************************************************************************)
InGuidance == tr \in GuidanceClasses

\* The rows of class s (1 positive, 2 negative) the last call was given and returned.
RowsIn(s) == pre.guidance.val[s]
RowsOut(s) == d.guidance.val[s]

\* The last call returned a guidance with one more click.
Grew == outcome = "returned" /\ Len(RowsOut(1)) = Len(RowsIn(1)) + 1

\* The click it appended is a positive one (the negative list got the row of -1).
AppendedPos ==
    /\ Grew
    /\ RowsOut(2)[Len(RowsOut(2))] = MinusOnes(Len(RowsOut(2)[Len(RowsOut(2))]))

\* The click it appended is a negative one.
AppendedNeg ==
    /\ Grew
    /\ RowsOut(1)[Len(RowsOut(1))] = MinusOnes(Len(RowsOut(1)[Len(RowsOut(1))]))

\* Some voxel of the array is > 0.
AnyPositive(m) == \E k \in 1..Len(m.v) : m.v[k] > 0

\* C1: at the start of every call of AddRandomGuidanced and
\* PosNegClickProbAddRandomGuidanced, whatever calls came before and whether
\* they returned or raised, is_pos and is_neg are both False, and the is_pos /
\* is_neg a call returns are True exactly when that call appended a positive /
\* negative click.
C1_FlagsResetBetweenCalls ==
    InGuidance =>
        /\ self.is_pos = FALSE /\ self.is_neg = FALSE
        /\ outcome = "returned" =>
              /\ d.is_pos <=> AppendedPos
              /\ d.is_neg <=> AppendedNeg

\* C2: the guidance a call returns has the shape (2, N, dim): both lists have
\* the same length, which is the input's or the input's plus one, all rows have
\* the same length, a new row is a real point in exactly one list and a row of
\* -1 in the other, and is_pos and is_neg are never both True.
C2_GuidanceShape ==
    (InGuidance /\ outcome = "returned") =>
        /\ Len(RowsOut(1)) = Len(RowsOut(2))
        /\ ~Ragged(d.guidance.val)
        /\ Len(RowsOut(1)) = Len(RowsIn(1)) \/ Grew
        /\ Grew => (AppendedPos /\ ~AppendedNeg) \/ (AppendedNeg /\ ~AppendedPos)
        /\ ~(d.is_pos /\ d.is_neg)

\* C3: in PosNegClickProbAddRandomGuidanced, with pos_click_probability = 1.0
\* no call adds a negative click and with pos_click_probability = 0.0 no call
\* adds a positive click, whatever the discrepancy.
C3_ClickProbabilityExtremes ==
    (tr = "PosNegClickProbAddRandomGuidanced" /\ outcome = "returned") =>
        /\ cfg.pos_click_probability = Unit => ~AppendedNeg
        /\ cfg.pos_click_probability = 0 => ~AppendedPos

\* The weighted distance find_guidance computes, flattened.
WeightedDistance(discrepancy, weight_map) ==
    [k \in 1..Len(discrepancy.v) |->
        distance_transform_cdt(discrepancy)[k]
            * (IF weight_map # None THEN weight_map[k] ELSE Unit)]

\* g is the point of voxel k of the map: the weighted distance at k, then the
\* spatial indices of k.
PointOf(g, k, discrepancy, weight_map) ==
    /\ Len(g) = Len(discrepancy.shape)
    /\ g[1] = WeightedDistance(discrepancy, weight_map)[k]
    /\ \A a \in 2..Len(g) :
          /\ g[a] = unravel_index(k - 1, discrepancy.shape)[a] * Unit
          /\ 0 <= g[a] /\ g[a] < discrepancy.shape[a] * Unit

\* C7: find_guidance returns None exactly when the discrepancy map has no
\* voxel > 0, and otherwise the point of one of the voxels > 0: as many
\* components as the map has axes, the weighted distance at the voxel first,
\* then the voxel's spatial indices, each within the shape.
C7_FindGuidance ==
    (tr = "find_guidance" /\ outcome # "init") =>
        /\ outcome = "returned"
        /\ d = None <=> ~AnyPositive(pre.discrepancy)
        /\ d # None =>
              \E k \in 1..Len(pre.discrepancy.v) :
                 /\ pre.discrepancy.v[k] > 0
                 /\ PointOf(d, k, pre.discrepancy, pre.weight_map)

\* C8: AddRandomGuidanced.add_guidance with will_interact True and
\* non-negative maps returns a positive point exactly when
\* sum(discrepancy[0]) >= sum(discrepancy[1]) and sum(discrepancy[0]) > 0, a
\* negative point exactly when sum(discrepancy[0]) < sum(discrepancy[1]), and
\* never both.
C8_AddGuidanceLargerSum ==
    (tr = "add_guidance" /\ outcome # "init" /\ pre.will_interact) =>
        LET s0 == np_sum(pre.discrepancy[1])
            s1 == np_sum(pre.discrepancy[2])
        IN  /\ outcome = "returned"
            /\ d[1] # None <=> (s0 >= s1 /\ s0 > 0)
            /\ d[2] # None <=> s0 < s1
            /\ ~(d[1] # None /\ d[2] # None)

\* C9: a call of either class appends a click exactly when the interaction
\* draw is True and one of the two discrepancy maps has a voxel > 0; when the
\* draw is False or both maps are all zero, the returned guidance holds the
\* input's points and is_pos = is_neg = False.
C9_ClickIffInteractAndError ==
    (InGuidance /\ outcome \in {"returned", "raised"}) =>
        LET click == /\ self._will_interact
                     /\ \/ AnyPositive(pre.discrepancy[1])
                        \/ AnyPositive(pre.discrepancy[2])
        IN  /\ Grew <=> click
            /\ ~click =>
                  /\ outcome = "returned"
                  /\ d.guidance.val = pre.guidance.val
                  /\ d.is_pos = FALSE /\ d.is_neg = FALSE

\* key is one of the keys of the instance.
HasKey(key) == \E i \in 1..Len(cfg.keys) : cfg.keys[i] = key

\* Every voxel of the channel is zero.
AllZero(channel) == \A k \in 1..Len(channel) : channel[k] = 0

\* C4: DiscardAddGuidanced with probability >= 1.0, on an image of
\* number_intensity_ch or number_intensity_ch + 2 channels, returns an image of
\* number_intensity_ch + 2 channels whose first number_intensity_ch channels
\* are the input's and whose last two are all zero, so that applying the
\* transform to that image returns it again; with probability 0 the image is
\* returned unchanged.
C4_DiscardAlways ==
    (/\ tr = "DiscardAddGuidanced" /\ outcome = "returned" /\ HasKey("image")
     /\ Len(pre.image) \in {cfg.number_intensity_ch, cfg.number_intensity_ch + 2}) =>
        LET n == cfg.number_intensity_ch IN
        /\ cfg.discard_probability >= Unit =>
              /\ Len(d.image) = n + 2
              /\ \A c \in 1..n : d.image[c] = pre.image[c]
              /\ AllZero(d.image[n + 1]) /\ AllZero(d.image[n + 2])
              /\ \A a \in DiscardAddGuidanced_apply(d.image) : a.image = d.image
        /\ cfg.discard_probability = 0 => d.image = pre.image

\* C4's case: clicks present in the two guidance channels are discarded.
C4_Witness ==
    /\ tr = "DiscardAddGuidanced" /\ outcome = "returned" /\ HasKey("image")
    /\ cfg.discard_probability >= Unit
    /\ Len(pre.image) = cfg.number_intensity_ch + 2
    /\ ~AllZero(pre.image[cfg.number_intensity_ch + 1])
    /\ ~AllZero(pre.image[cfg.number_intensity_ch + 2])
    /\ AllZero(d.image[cfg.number_intensity_ch + 2])

\* The header fields of meta are those PatchMeta sets.
Patched(meta) == meta.pixdim[5] = 0 /\ meta.dim[1] = 3 /\ meta.dim[5] = 1

\* C5: SingleLabelSingleModalityd returns a label of the input's shape that
\* is 1 exactly where the input label was > 0 and 0 elsewhere; for an image
\* with pixdim[4] > 0 it returns the index-0 slice of the last axis and sets
\* pixdim[4] = 0.0, dim[0] = 3, dim[4] = 1; a label with max <= 1 and an image
\* with pixdim[4] <= 0 are returned unchanged with their metadata; applied to
\* its own output the transform changes nothing.
C5_SingleLabelSingleModality ==
    (tr = "SingleLabelSingleModalityd" /\ outcome = "returned") =>
        /\ HasKey("label") =>
              /\ d.label.shape = pre.label.shape
              /\ Len(d.label.v) = Len(pre.label.v)
              /\ \A k \in 1..Len(pre.label.v) :
                    /\ d.label.v[k] \in {0, 1}
                    /\ d.label.v[k] = 1 <=> pre.label.v[k] > 0
              /\ np_max(pre.label) <= 1 =>
                    /\ d.label = pre.label
                    /\ d.label_meta_dict = pre.label_meta_dict
        /\ HasKey("image") =>
              IF pre.image_meta_dict.pixdim[5] > 0
              THEN LET n == Len(pre.image.shape)
                       last == pre.image.shape[n]
                   IN  /\ d.image.shape = SubSeq(pre.image.shape, 1, n - 1)
                       /\ Len(d.image.v) * last = Len(pre.image.v)
                       /\ \A j \in 1..Len(d.image.v) :
                             d.image.v[j] = pre.image.v[(j - 1) * last + 1]
                       /\ Patched(d.image_meta_dict)
              ELSE /\ d.image = pre.image
                   /\ d.image_meta_dict = pre.image_meta_dict
        /\ SingleLabelSingleModalityd_call(d) = d

\* C5's case: a label with several masks and an image with several modalities.
C5_Witness ==
    /\ tr = "SingleLabelSingleModalityd" /\ outcome = "returned"
    /\ HasKey("label") /\ HasKey("image")
    /\ np_max(pre.label) > 1
    /\ pre.image_meta_dict.pixdim[5] > 0 /\ pre.image.shape = <<1, 2>>
    /\ d.label # pre.label /\ d.image.shape = <<1>>

\* C6: ResizeGuidanceCustomd binds guidance to [pos, neg], click i of pos /
\* neg being click i of foreground / background with every coordinate scaled
\* by current / original and truncated: [] for no click, the click itself when
\* the two shapes are equal, as many clicks in the same order, and a
\* coordinate in 0 .. original - 1 mapped into 0 .. current - 1.
C6_ResizeGuidance ==
    (tr = "ResizeGuidanceCustomd" /\ outcome = "returned") =>
        LET current == Tail(pre.image.shape)
            original == SubSeq(pre.image_meta_dict.dim, 2, 4)
            Scaled(out, in) ==
                /\ Len(out) = Len(in)
                /\ \A i \in 1..Len(in) : \A k \in 1..3 :
                      /\ out[i][k] * original[k] <= in[i][k] * current[k]
                      /\ in[i][k] * current[k] <= (out[i][k] + 1) * original[k]
                      /\ (in[i][k] * current[k]) % original[k] # 0 =>
                            in[i][k] * current[k] < (out[i][k] + 1) * original[k]
                      /\ (0 <= in[i][k] /\ in[i][k] < original[k]) =>
                            (0 <= out[i][k] /\ out[i][k] < current[k])
                /\ current = original => out = in
        IN  /\ Len(d.guidance) = 2
            /\ Scaled(d.guidance[1], pre.foreground)
            /\ Scaled(d.guidance[2], pre.background)

\* C6's case: two foreground clicks inside the original volume are moved.
C6_Witness ==
    /\ tr = "ResizeGuidanceCustomd" /\ outcome = "returned"
    /\ Len(pre.foreground) = 2 /\ Len(pre.background) = 1
    /\ pre.foreground[1] # pre.foreground[2]
    /\ \A i \in 1..2 : \A k \in 1..3 : pre.foreground[i][k] < pre.image_meta_dict.dim[k + 1]
    /\ d.guidance[1][1] # pre.foreground[1]
    /\ d.guidance[1][2] # pre.foreground[2]

\* A call of a transform has ended.
Called == outcome \in {"returned", "raised"}

\* The keys whose binding the transform sets in the dict it returns.
Targets ==
    CASE tr = "DiscardAddGuidanced" -> IF HasKey("image") THEN {"image"} ELSE {}
      [] tr = "ResizeGuidanceCustomd" -> {cfg.guidance}
      [] tr \in GuidanceClasses -> {"guidance", "is_pos", "is_neg"}
      [] tr = "SingleLabelSingleModalityd" ->
            {k \in {"label", "image"} : HasKey(k)}

\* C10 as stated: after a call the caller's record has the same keys bound to
\* the same values and contents as before it, and every key the transform
\* does not target is bound in the returned dict to its input value.
C10_InputRecordUntouched ==
    Called =>
        /\ data = pre
        /\ outcome = "returned" =>
              \A k \in DOMAIN pre \ Targets : k \in DOMAIN d /\ d[k] = pre[k]

\* meta is before with pixdim[4] = 0.0, dim[0] = 3, dim[4] = 1 and nothing else.
PatchedFrom(meta, before) ==
    /\ DOMAIN meta = DOMAIN before
    /\ Patched(meta)
    /\ \A i \in 1..Len(before.pixdim) : i # 5 => meta.pixdim[i] = before.pixdim[i]
    /\ \A i \in 1..Len(before.dim) : i \notin {1, 5} => meta.dim[i] = before.dim[i]
    /\ Len(meta.pixdim) = Len(before.pixdim) /\ Len(meta.dim) = Len(before.dim)

\* C10: a call leaves the caller's record with the same keys, and with the
\* same values except for the objects the transform changes in place: a
\* guidance passed as a list keeps its rows and gains at most one per click
\* list (the rows the returned guidance is the integer conversion of), an
\* image of number_intensity_ch + 2 channels passed to DiscardAddGuidanced is
\* the returned image, and label_meta_dict / image_meta_dict are patched
\* when SingleLabelSingleModalityd reduces the label / the image; every key
\* the transform does not target is bound in the returned dict to the object
\* the caller's record holds.
C10_InputChangedOnlyInPlace ==
    Called =>
        /\ DOMAIN data = DOMAIN pre
        /\ outcome = "returned" =>
              \A k \in DOMAIN pre \ Targets : k \in DOMAIN d /\ d[k] = data[k]
        /\ tr = "ResizeGuidanceCustomd" => data = pre
        /\ tr = "DiscardAddGuidanced" =>
              /\ data.label = pre.label
              /\ data.image =
                    IF HasKey("image") /\ Len(pre.image) = cfg.number_intensity_ch + 2
                    THEN d.image ELSE pre.image
        /\ tr \in GuidanceClasses =>
              /\ \A k \in DOMAIN pre : k # "guidance" => data[k] = pre[k]
              /\ data.guidance.kind = pre.guidance.kind
              /\ pre.guidance.kind # "list" => data.guidance = pre.guidance
              /\ \A i \in 1..2 :
                    LET before == pre.guidance.val[i]
                        after == data.guidance.val[i]
                    IN  /\ Len(after) \in {Len(before), Len(before) + 1}
                        /\ SubSeq(after, 1, Len(before)) = before
              /\ (pre.guidance.kind = "list" /\ outcome = "returned") =>
                    d.guidance.val = AsIntList(data.guidance.val)
        /\ tr = "SingleLabelSingleModalityd" =>
              /\ \A k \in DOMAIN pre :
                    k \notin {"label_meta_dict", "image_meta_dict"} => data[k] = pre[k]
              /\ IF HasKey("label") /\ np_max(pre.label) > 1
                 THEN PatchedFrom(data.label_meta_dict, pre.label_meta_dict)
                 ELSE data.label_meta_dict = pre.label_meta_dict
              /\ IF HasKey("image") /\ pre.image_meta_dict.pixdim[5] > 0
                 THEN PatchedFrom(data.image_meta_dict, pre.image_meta_dict)
                 ELSE data.image_meta_dict = pre.image_meta_dict

\* C10's case: a call has changed an object of the caller's record.
C10_Witness ==
    /\ outcome = "returned"
    /\ data # pre
    /\ \/ tr = "DiscardAddGuidanced" /\ data.image # pre.image
       \/ tr \in GuidanceClasses /\ Len(data.guidance.val[1]) > Len(pre.guidance.val[1])
       \/ tr = "SingleLabelSingleModalityd" /\ data.image_meta_dict # pre.image_meta_dict

=============================================================================
